---- MODULE Spec2Model ----
(***************************************************************************)
(* A model of mcp-python-repl: the execution coordinator (executor.py),    *)
(* the session store (session.py) and the variable tools of server.py.     *)
(*                                                                         *)
(* SpecExec      one session driven by execute_code, on a platform with   *)
(*               or without signal.SIGALRM.                                *)
(* SpecTools     one session driven by execute_code and repl_set_variable. *)
(* SpecSession   one session driven by repl_run_code, repl_run_file and    *)
(*               the three variable tools.                                 *)
(* SpecSandbox   import statements with the sandbox on or off.             *)
(* SpecAlarm     one execute_code call after the other, statement by       *)
(*               statement, with the alarm going off at any moment.        *)
(* SpecTruncate  the captured output of a call and what the                *)
(*               ExecutionResult carries of it.                            *)
(* SpecMgr       the SessionManager registry under concurrent callers and  *)
(*               a moving clock.                                           *)
(* SpecCount     the same, with callers that read the count property.      *)
(* SpecArgv      repl_run_file callers on one session and the process's    *)
(*               sys.argv.                                                 *)
(* SpecList      repl_list_sessions callers next to callers that create    *)
(*               and delete sessions, and a moving clock.                  *)
(* SpecRun       repl_run_code callers next to callers that create and     *)
(*               delete sessions, and a moving clock.                      *)
(***************************************************************************)
EXTENDS Integers, Sequences, FiniteSets, TLC

VARIABLES
    namespace,   \* Session.namespace: name -> object reference
    heap,        \* contents of the objects the references point to
    history,     \* Session.history: sequence of ExecutionRecord
    res,         \* what the last execute_code call gave its caller
    exec_ns,     \* execute_code's local exec_ns as exec() left it
    ncalls,      \* number of execute_code calls made with non-blank code
    code_kind,   \* the kind of code the last execute_code call was given
    ns_before,   \* session.namespace when the last execute_code call began
    heap_before, \* the objects' contents when that call began
    raised,      \* how exec() ended in the last execute_code call
    use_signal,  \* hasattr(signal, "SIGALRM"): the platform has the alarm
    sandbox_enabled, \* Config.sandbox_enabled
    sessions,    \* SessionManager._sessions, in dict (insertion) order
    now,         \* the clock datetime.now() reads
    next_id,     \* number of session ids generated so far
    pc,          \* per caller: where it is inside a SessionManager method
    ret,         \* the last value a SessionManager method returned
    lock_held,   \* was self._lock held at the latest access to self._sessions
    total,       \* the value the count property gave last
    captured,    \* stdout_buf / stderr_buf contents and exec_ns["result"]
    max_output_bytes, \* Config.max_output_bytes
    returned,    \* the stdout, stderr and result of the ExecutionResult
    frame,       \* per caller: the locals of the server.py tool it is inside
    sys_argv,    \* sys.argv, one list for the whole process
    response,    \* what repl_list_sessions answered last
    sigalrm,     \* the handler installed for SIGALRM in the process
    alarm,       \* the process alarm: off, armed, or delivered and pending
    old_handler, \* execute_code's local old_handler
    at           \* where the call in progress is inside execute_code

execVars == <<namespace, heap, history, res, exec_ns, ncalls, code_kind,
              ns_before, heap_before, raised, use_signal, sandbox_enabled>>
mgrVars == <<sessions, now, next_id, pc, ret>>
regVars == <<lock_held, total>>
outVars == <<captured, max_output_bytes, returned>>
toolVars == <<frame, sys_argv, response>>
sigVars == <<sigalrm, alarm, old_handler, at>>
vars == <<namespace, heap, history, res, exec_ns, ncalls, code_kind,
          ns_before, heap_before, raised, use_signal, sandbox_enabled,
          sessions, now, next_id, pc, ret, lock_held, total,
          captured, max_output_bytes, returned,
          frame, sys_argv, response, sigalrm, alarm, old_handler, at>>

-----------------------------------------------------------------------------
(* Bounds of the model *)

MaxOps == 1
MaxCalls == 2
MaxSessions == 2
SessionTtl == 1
MaxIds == 3
MaxTime == 2
MaxLen == 2
MaxBudget == 2

-----------------------------------------------------------------------------
(* Names, objects, functions as dicts *)

\* Variable names are strings: sequences of characters.
NameX == <<"x">>
NameY == <<"y">>
NameT == <<"_", "t">>
NameResult == <<"r", "e", "s", "u", "l", "t">>
\* a name no script and no tool binds
NameMissing == <<"m", "i", "s", "s", "i", "n", "g", "_", "n", "a", "m", "e">>
NameBuiltins == <<"_", "_", "b", "u", "i", "l", "t", "i", "n", "s", "_", "_">>
NameFile == <<"_", "_", "f", "i", "l", "e", "_", "_">>

Names == {NameX, NameY, NameT, NameResult}

\* Object identities (what Python's `is` compares); heap[o] is o's content.
Objs == {1, 2}

EmptyDict == [k \in {} |-> 0]

\* d[k] = v
DictSet(d, k, v) == [n \in (DOMAIN d) \cup {k} |-> IF n = k THEN v ELSE d[n]]

\* d.pop(k, None) / del d[k]
DictDel(d, k) == [n \in (DOMAIN d) \ {k} |-> d[n]]

\* str.startswith("_")
StartsWithUnderscore(key) == Len(key) >= 1 /\ key[1] = "_"

-----------------------------------------------------------------------------
(* The submitted code.  exec() is the external interpreter: a script is a  *)
(* short sequence of statements acting on the execution namespace and on   *)
(* the objects it can reach.                                               *)

NoName == <<>>
NoObj == 0
\* The object bound to the key __builtins__ (the builtins module or table).
BuiltinsObj == 0

\* The module object an import statement binds (one per module, cached in
\* sys.modules; its content is not modelled).
ModuleObj == 3

\* The str object holding the path of the file repl_run_file runs.
PathObj == 4

\* name = <object o>: o is a fresh object or one that already exists
Assign(n, o) == [op |-> "assign", name |-> n, obj |-> o]
\* an expression that looks the name up, e.g. print(name)
Read(n) == [op |-> "read", name |-> n, obj |-> NoObj]
\* an in-place change of the object the name refers to, e.g. name.append(1)
Mutate(n) == [op |-> "mutate", name |-> n, obj |-> NoObj]
\* del name
Del(n) == [op |-> "del", name |-> n, obj |-> NoObj]
\* import <dotted module name>
Import(m) == [op |-> "import", name |-> m, obj |-> NoObj]
\* How a script stops: at its end, or in a statement that raises (1 / 0,
\* eval("("), sys.exit(), print(missing_name) for a name bound nowhere), or
\* in one that does not finish (while True: pass).
\* Statements after that one never run, so the ending closes the script.
\* SystemExit derives from BaseException, the other kinds from Exception.
\* "hang_caught" is a script that does not finish by itself either, but sits
\* in a try block whose except clause takes any Exception and lets the script
\* run to its end:  try: <while True: pass>  except Exception: pass
RaisedKinds == {"ZeroDivisionError", "SyntaxError", "SystemExit"}
BaseOnlyKinds == {"SystemExit"}
Endings == {"end", "hang", "hang_caught"} \cup RaisedKinds

\* The statements scripts are drawn from: x = <either object>, y = <object 1>,
\* _t = <object 1>, result = <object 2>, a use of x, an in-place change of
\* the object x names, del x.
Stmts ==
    {Assign(NameX, o) : o \in Objs}
        \cup {Assign(NameY, 1), Assign(NameT, 1), Assign(NameResult, 2)}
        \cup {Read(NameX), Mutate(NameX), Del(NameX)}

StmtSeqs == UNION {[1..k -> Stmts] : k \in 0..MaxOps}

EmptyCode == [kind |-> "empty", stmts |-> <<>>, ending |-> "end"]       \* ""
BlankCode == [kind |-> "blank", stmts |-> <<>>, ending |-> "end"]       \* "  \n"
BadSyntaxCode == [kind |-> "syntax", stmts |-> <<>>, ending |-> "end"]  \* "def f("
Script(ss, e) == [kind |-> "script", stmts |-> ss, ending |-> e]

Codes ==
    {EmptyCode, BlankCode, BadSyntaxCode}
        \cup {Script(ss, e) : ss \in StmtSeqs, e \in Endings}

\* Module names are strings too.  The eleven names of the blocked set, and
\* two more that scripts import: a submodule of a blocked package and a
\* module that is not blocked.
ModSubprocess ==
    <<"s", "u", "b", "p", "r", "o", "c", "e", "s", "s">>
ModShutil ==
    <<"s", "h", "u", "t", "i", "l">>
ModCtypes ==
    <<"c", "t", "y", "p", "e", "s">>
ModSocket ==
    <<"s", "o", "c", "k", "e", "t">>
ModHttpServer ==
    <<"h", "t", "t", "p", ".", "s", "e", "r", "v", "e", "r">>
ModXmlrpc ==
    <<"x", "m", "l", "r", "p", "c">>
ModFtplib ==
    <<"f", "t", "p", "l", "i", "b">>
ModSmtplib ==
    <<"s", "m", "t", "p", "l", "i", "b">>
ModTelnetlib ==
    <<"t", "e", "l", "n", "e", "t", "l", "i", "b">>
ModWebbrowser ==
    <<"w", "e", "b", "b", "r", "o", "w", "s", "e", "r">>
ModAntigravity ==
    <<"a", "n", "t", "i", "g", "r", "a", "v", "i", "t", "y">>
ModXmlrpcClient ==
    <<"x", "m", "l", "r", "p", "c", ".", "c", "l", "i", "e", "n", "t">>
ModJson ==
    <<"j", "s", "o", "n">>

SANDBOXED_BLOCKED_MODULES ==
    {ModSubprocess, ModShutil, ModCtypes, ModSocket,
     ModHttpServer, ModXmlrpc, ModFtplib, ModSmtplib,
     ModTelnetlib, ModWebbrowser, ModAntigravity}

\* The modules the import statements of scripts name.
ImportedModules == {ModSubprocess, ModHttpServer, ModXmlrpcClient, ModJson}

\* name.split(".")[0]
TopLevel(name) ==
    LET dots == {i \in 1..Len(name) : name[i] = "."}
    IN  IF dots = {}
        THEN name
        ELSE SubSeq(name, 1, (CHOOSE i \in dots : \A j \in dots : i <= j) - 1)

\* _restricted_import: TRUE when it raises the ImportError
RestrictedImport(name) == TopLevel(name) \in SANDBOXED_BLOCKED_MODULES

\* What an exception says: the name or module it is about and the names its
\* message lists.
NoMessage == [about |-> NoName, listing |-> {}]
MessageAbout(n) == [about |-> n, listing |-> {}]
\* "Module '<name>' is blocked in sandbox mode. Blocked modules: <sorted>"
BlockedMessage(name) == [about |-> name, listing |-> SANDBOXED_BLOCKED_MODULES]

\* One statement of the script on the execution namespace ns and the heap hp.
StepStmt(s, ns, hp) ==
    LET unbound == [ns |-> ns, heap |-> hp, exc |-> "NameError",
                    msg |-> MessageAbout(s.name)]
    IN  CASE s.op = "assign" ->
                [ns |-> DictSet(ns, s.name, s.obj), heap |-> hp,
                 exc |-> "none", msg |-> NoMessage]
          [] s.op = "read" ->
                IF s.name \in DOMAIN ns
                THEN [ns |-> ns, heap |-> hp, exc |-> "none", msg |-> NoMessage]
                ELSE unbound
          [] s.op = "mutate" ->
                IF s.name \in DOMAIN ns
                THEN [ns |-> ns,
                      heap |-> [hp EXCEPT ![ns[s.name]] = 1 - @],
                      exc |-> "none", msg |-> NoMessage]
                ELSE unbound
          [] s.op = "del" ->
                IF s.name \in DOMAIN ns
                THEN [ns |-> DictDel(ns, s.name), heap |-> hp,
                      exc |-> "none", msg |-> NoMessage]
                ELSE unbound
          [] s.op = "import" ->
                \* the statement calls __builtins__.__import__(name, ...) and
                \* binds the top-level package
                IF sandbox_enabled /\ RestrictedImport(s.name)
                THEN [ns |-> ns, heap |-> hp, exc |-> "ImportError",
                      msg |-> BlockedMessage(s.name)]
                ELSE [ns |-> DictSet(ns, TopLevel(s.name), ModuleObj),
                      heap |-> hp, exc |-> "none", msg |-> NoMessage]

\* exec(code, exec_ns) for compiled code: statements in order until one raises.
RECURSIVE RunStmts(_, _, _, _)
RunStmts(ss, ending, ns, hp) ==
    IF ss = <<>>
    THEN [ns |-> ns, heap |-> hp,
          exc |-> IF ending = "end" THEN "none" ELSE ending,
          msg |-> IF ending = "NameError"
                  THEN MessageAbout(NameMissing)
                  ELSE NoMessage]
    ELSE LET r == StepStmt(Head(ss), ns, hp)
         IN  IF r.exc = "none"
             THEN RunStmts(Tail(ss), ending, r.ns, r.heap)
             ELSE r

\* exec(code, exec_ns): compile, then run.
Exec(code, ns, hp) ==
    IF code.kind = "syntax"
    THEN [ns |-> ns, heap |-> hp, exc |-> "SyntaxError", msg |-> NoMessage]
    ELSE RunStmts(code.stmts, code.ending, ns, hp)

-----------------------------------------------------------------------------
(* executor.py: execute_code *)

NoneVal == "None"

\* ExecutionResult.hint: which text, and the names it lists.
\* None; "Break your code into smaller chunks or increase REPL_TIMEOUT.";
\* "Check your Python syntax."; "Variable not found. ... Currently
\* available: [...]"
NoHint == [kind |-> "None", available |-> {}]
TimeoutHint == [kind |-> "timeout", available |-> {}]
SyntaxHint == [kind |-> "syntax", available |-> {}]
AvailableHint(names) == [kind |-> "available", available |-> names]

\* A variant of variable_summary that lists every key.
variable_summary_all_keys(ns) == DOMAIN ns

\* Session.variable_summary().keys(): the keys not starting with "_"
variable_summary(ns) == {k \in DOMAIN ns : ~StartsWithUnderscore(k)}

\* ExecutionResult.  new_vars / modified_vars are the name lists as sets; the
\* empty set stands for both [] and the None that `new_vars or None` gives.
\* error_message, error_line, error_traceback and hint have their defaults
\* (None) here; the except clauses set them.
ExecutionResult(status, result, error_type, new_vars, modified_vars) ==
    [status |-> status, result |-> result, error_type |-> error_type,
     new_vars |-> new_vars, modified_vars |-> modified_vars,
     error_message |-> NoMessage, error_line |-> NoneVal,
     error_traceback |-> NoneVal, hint |-> NoHint]

\* No ExecutionResult: nothing was called yet, or the last tool was not
\* execute_code.
NoResult == ExecutionResult("none", NoObj, NoneVal, {}, {})

\* The call ended with an exception leaving execute_code: no ExecutionResult.
Propagated(exc) == ExecutionResult("propagated", NoObj, exc, {}, {})

\* exec() does not return: the caller is still inside execute_code.
Blocked == ExecutionResult("blocked", NoObj, NoneVal, {}, {})

\* ExecutionRecord, without its timestamp and code preview.
ExecutionRecord(status, new_vars, modified_vars, error) ==
    [status |-> status, new_vars |-> new_vars,
     modified_vars |-> modified_vars, error |-> error]

\* A variant of Record that puts the new record first.
RecordAtFront(hist, status, new_vars, modified_vars, error) ==
    <<ExecutionRecord(status, new_vars, modified_vars, error)>> \o hist

\* _record: session.history.append(ExecutionRecord(...))
Record(hist, status, new_vars, modified_vars, error) ==
    Append(hist, ExecutionRecord(status, new_vars, modified_vars, error))

\* A variant of IsBlank without the strip(): only "" is refused.
IsBlankNoStrip(code) == code.kind = "empty"

\* not code or not code.strip()
IsBlank(code) == code.kind \in {"empty", "blank"}

\* A variant of BuildExecNs that does not start from the session's bindings.
BuildExecNsEmpty(ns) == DictSet(EmptyDict, NameBuiltins, BuiltinsObj)

\* A variant of BuildExecNs without the pop of "result".
BuildExecNsKeepResult(ns) == DictSet(ns, NameBuiltins, BuiltinsObj)

\* exec_ns = {**session.namespace}; exec_ns["__builtins__"] = ...;
\* exec_ns.pop("result", None)
BuildExecNs(ns) == DictDel(DictSet(ns, NameBuiltins, BuiltinsObj), NameResult)

\* A variant of Persistable that does not skip the key "result".
PersistableWithResult(key) ==
    ~(StartsWithUnderscore(key) \/ key \in {NameBuiltins})

\* The keys the reconciliation loop does not skip.
Persistable(key) ==
    ~(StartsWithUnderscore(key) \/ key \in {NameBuiltins, NameResult})

\* key not in session.namespace
NewVars(ns, ens) ==
    {k \in DOMAIN ens : Persistable(k) /\ k \notin DOMAIN ns}

\* A variant of ModifiedVars that compares contents (!=) instead of
\* identities (is not).
ModifiedVarsByValue(ns, ens) ==
    {k \in DOMAIN ens :
        /\ ~(StartsWithUnderscore(k) \/ k \in {NameBuiltins, NameResult})
        /\ k \in DOMAIN ns
        /\ heap[ns[k]] # heap[ens[k]]}

\* session.namespace.get(key) is not value
ModifiedVars(ns, ens) ==
    {k \in DOMAIN ens : Persistable(k) /\ k \in DOMAIN ns /\ ns[k] # ens[k]}

\* A variant of Reconcile that stores every binding exec() left
\* (session.namespace.update(exec_ns)).
ReconcileUpdateAll(ns, ens) ==
    [k \in (DOMAIN ns) \cup ((DOMAIN ens) \ {NameBuiltins}) |->
        IF k \in DOMAIN ens THEN ens[k] ELSE ns[k]]

\* A variant of Reconcile that also drops the keys exec() left unbound
\* (the loop followed by a removal of every key missing from exec_ns).
ReconcileDropDeleted(ns, ens) ==
    LET changed == NewVars(ns, ens) \cup ModifiedVars(ns, ens)
    IN  [k \in ((DOMAIN ns) \cap (DOMAIN ens)) \cup changed |->
            IF k \in changed THEN ens[k] ELSE ns[k]]

\* session.namespace after the reconciliation loop
Reconcile(ns, ens) ==
    LET changed == NewVars(ns, ens) \cup ModifiedVars(ns, ens)
    IN  [k \in (DOMAIN ns) \cup changed |->
            IF k \in changed THEN ens[k] ELSE ns[k]]

\* exec_ns.get("result")
ResultVal(ens) == IF NameResult \in DOMAIN ens THEN ens[NameResult] ELSE NoObj

\* Which except clause, if any, takes the exception exec() ended with (or,
\* for "TimeoutError", the one the handler raised in execute_code itself).
\* With the alarm armed, _timeout_handler raises TimeoutError (an Exception)
\* in the frame of the running script: it ends a "hang", and a "hang_caught"
\* takes it in its own except clause and runs to its end.  Without
\* signal.SIGALRM nothing is armed and exec() does not return.
Outcome(exc) ==
    CASE exc = "none" -> "completed"
      [] exc = "hang" -> IF use_signal THEN "timeout" ELSE "blocked"
      [] exc = "hang_caught" -> IF use_signal THEN "completed" ELSE "blocked"
      [] exc = "TimeoutError" -> "timeout"
      [] exc = "SyntaxError" -> "syntax_error"
      [] exc = "NameError" -> "name_error"
      [] exc \in BaseOnlyKinds -> "propagated"
      [] OTHER -> "error"

\* A variant of AfterExec that reconciles before it looks at how exec() ended.
AfterExecReconcileAlways(r) ==
    LET out == Outcome(r.exc)
        nv == NewVars(namespace, r.ns)
        mv == ModifiedVars(namespace, r.ns)
        st == CASE out = "completed" -> "completed"
                [] out = "timeout" -> "timeout"
                [] OTHER -> "error"
    IN  [namespace |-> Reconcile(namespace, r.ns),
         history |-> Record(history, st, nv, mv, NoneVal),
         res |-> ExecutionResult(st, ResultVal(r.ns), NoneVal, nv, mv)]

\* The session and the ExecutionResult after execute_code(code, session, config)
\* on a session with namespace ns and history hist, when exec() left
\* r = [ns, heap, exc, msg].
AfterExecOn(ns, hist, r) ==
    LET out == Outcome(r.exc)
        nv == NewVars(ns, r.ns)
        mv == ModifiedVars(ns, r.ns)
    IN  CASE out = "completed" ->
                [namespace |-> Reconcile(ns, r.ns),
                 history |-> Record(hist, "completed", nv, mv, NoneVal),
                 res |-> ExecutionResult("completed", ResultVal(r.ns),
                                         NoneVal, nv, mv)]
          [] out = "timeout" ->
                [namespace |-> ns,
                 history |-> Record(hist, "timeout", {}, {}, NoneVal),
                 res |-> [ExecutionResult("timeout", NoObj, "TimeoutError",
                                          {}, {})
                            EXCEPT !.hint = TimeoutHint]]
          [] out = "syntax_error" ->
                [namespace |-> ns,
                 history |-> Record(hist, "error", {}, {}, r.exc),
                 res |-> [ExecutionResult("error", NoObj, "SyntaxError",
                                          {}, {})
                            EXCEPT !.error_message = r.msg,
                                   !.error_line = "lineno",
                                   !.hint = SyntaxHint]]
          [] out = "name_error" ->
                [namespace |-> ns,
                 history |-> Record(hist, "error", {}, {}, r.exc),
                 res |-> [ExecutionResult("error", NoObj, "NameError", {}, {})
                            EXCEPT !.error_message = r.msg,
                                   !.hint = AvailableHint(
                                               variable_summary(ns))]]
          [] out = "propagated" ->
                [namespace |-> ns,
                 history |-> hist,
                 res |-> Propagated(r.exc)]
          [] out = "blocked" ->
                [namespace |-> ns,
                 history |-> hist,
                 res |-> Blocked]
          [] OTHER ->
                [namespace |-> ns,
                 history |-> Record(hist, "error", {}, {}, r.exc),
                 res |-> [ExecutionResult("error", NoObj, r.exc, {}, {})
                            EXCEPT !.error_message = r.msg,
                                   !.error_traceback = "traceback"]]

\* The same for the session the variables namespace and history hold
AfterExec(r) == AfterExecOn(namespace, history, r)

\* execute_code with empty or whitespace-only code
ExecuteBlank(code) ==
    /\ IsBlank(code)
    /\ res' = ExecutionResult("error", NoObj, "ValueError", {}, {})
    /\ exec_ns' = EmptyDict
    /\ raised' = "none"
    /\ UNCHANGED <<namespace, heap, history, ncalls>>

\* execute_code with code that is run
ExecuteRun(code) ==
    /\ ~IsBlank(code)
    /\ ncalls < MaxCalls
    /\ LET r == Exec(code, BuildExecNs(namespace), heap)
           a == AfterExec(r)
       IN  /\ raised' = r.exc
           /\ namespace' = a.namespace
           /\ history' = a.history
           /\ res' = a.res
           /\ exec_ns' = r.ns
           /\ heap' = r.heap
    /\ ncalls' = ncalls + 1

\* execute_code(code, session, config) for a code among codes, by a caller
\* that is not inside an earlier call
ExecuteCodeFrom(codes) ==
    /\ res.status # "blocked"
    /\ \E code \in codes :
          /\ ExecuteBlank(code) \/ ExecuteRun(code)
          /\ code_kind' = code.kind
    /\ ns_before' = namespace
    /\ heap_before' = heap
    /\ UNCHANGED <<use_signal, sandbox_enabled>>
    /\ UNCHANGED <<mgrVars, regVars, outVars, toolVars, sigVars>>

ExecuteCode == ExecuteCodeFrom(Codes)

\* The scripts run between repl_set_variable calls: assignments to x and y
\* and uses of x, ending there or in print(missing_name)
ToolStmts == {Assign(NameX, 1), Assign(NameY, 1), Read(NameX)}
ToolCodes ==
    {Script(ss, e) :
        ss \in UNION {[1..k -> ToolStmts] : k \in 0..MaxOps},
        e \in {"end", "NameError"}}

ExecuteToolCode == ExecuteCodeFrom(ToolCodes)

\* The scripts run between calls of all the tools of a session: at most one
\* statement (x = <object 1>, result = <object 2>, print(result)), ending
\* there or in print(missing_name)
SessionStmts == {Assign(NameX, 1), Assign(NameResult, 2), Read(NameResult)}
SessionCodes ==
    {Script(ss, e) :
        ss \in {<<>>} \cup {<<st>> : st \in SessionStmts},
        e \in {"end", "NameError"}}

ExecuteSessionCode == ExecuteCodeFrom(SessionCodes)

\* Scripts of one import statement, ending there or in a failure after it
ImportCodes ==
    {Script(<<Import(m)>>, e) :
        m \in ImportedModules, e \in {"end", "ZeroDivisionError"}}

ExecuteImport == ExecuteCodeFrom(ImportCodes)

\* Captured output: text is a string, a sequence of characters.  The texts
\* scripts write: every text over two letters up to MaxLen characters, and
\* one whose length takes two digits to write.
Alphabet == {"a", "b"}
LongText == [i \in 1..(MaxLen + 9) |-> IF i % 2 = 1 THEN "a" ELSE "b"]
Texts == UNION {[1..k -> Alphabet] : k \in 0..MaxLen} \cup {LongText}

\* str(n) for an int n >= 0
Digits == <<"0", "1", "2", "3", "4", "5", "6", "7", "8", "9">>
RECURSIVE Decimal(_)
Decimal(n) ==
    IF n < 10
    THEN <<Digits[n + 1]>>
    ELSE Decimal(n \div 10) \o <<Digits[(n % 10) + 1]>>

\* f"\n... [truncated, {len(text)} total chars]", around the number
MarkerHead ==
    <<"\n", ".", ".", ".", " ", "[", "t", "r", "u", "n", "c", "a", "t", "e", "d", ",", " ">>
MarkerTail ==
    <<" ", "t", "o", "t", "a", "l", " ", "c", "h", "a", "r", "s", "]">>

\* A variant of truncate whose marker states the length kept.
truncate_states_kept(text, max_bytes) ==
    IF Len(text) <= max_bytes
    THEN text
    ELSE SubSeq(text, 1, max_bytes)
            \o MarkerHead \o Decimal(max_bytes) \o MarkerTail

\* _truncate(text, max_bytes), for max_bytes >= 0
truncate(text, max_bytes) ==
    IF Len(text) <= max_bytes
    THEN text
    ELSE SubSeq(text, 1, max_bytes)
            \o MarkerHead \o Decimal(Len(text)) \o MarkerTail

\* What exec() left in the two buffers and under the key result, and what
\* the ExecutionResult carries of it.
Output(status, stdout, stderr, result) ==
    [status |-> status, stdout |-> stdout, stderr |-> stderr,
     result |-> result]
NoOutput == Output("none", <<>>, <<>>, <<>>)

\* execute_code, lines 187-200, after a script that wrote captured.stdout
\* and captured.stderr and bound result to the text captured.result
ReturnCompleted ==
    /\ captured.status = "captured"
    /\ returned.status = "none"
    /\ returned' = Output("completed",
                          truncate(captured.stdout, max_output_bytes),
                          truncate(captured.stderr, max_output_bytes),
                          captured.result)
    /\ UNCHANGED <<captured, max_output_bytes>>
    /\ UNCHANGED <<execVars, mgrVars, regVars, toolVars, sigVars>>

\* execute_code, lines 125-134, after a script that wrote captured.stdout
\* and captured.stderr and did not finish before the alarm: the result keeps
\* its default None
ReturnTimeout ==
    /\ captured.status = "captured"
    /\ returned.status = "none"
    /\ returned' = Output("timeout",
                          truncate(captured.stdout, max_output_bytes),
                          truncate(captured.stderr, max_output_bytes),
                          NoneVal)
    /\ UNCHANGED <<captured, max_output_bytes>>
    /\ UNCHANGED <<execVars, mgrVars, regVars, toolVars, sigVars>>

\* The exceptions a script can end with after it wrote captured.stdout and
\* captured.stderr; SyntaxError is the one of eval("(") or exec("def f(")
\* inside the script
ErrorKinds == {"SyntaxError", "NameError", "ZeroDivisionError"}

\* execute_code, lines 136-169, after a script that wrote captured.stdout
\* and captured.stderr and ended with the exception exc: the SyntaxError and
\* the NameError clause pass no stdout and no stderr, so the result has the
\* defaults "" of ExecutionResult; the Exception clause passes the
\* truncated texts
ReturnError(exc) ==
    /\ captured.status = "captured"
    /\ returned.status = "none"
    /\ raised' = exc
    /\ returned' = IF exc \in {"SyntaxError", "NameError"}
                   THEN Output("error", <<>>, <<>>, NoneVal)
                   ELSE Output("error",
                               truncate(captured.stdout, max_output_bytes),
                               truncate(captured.stderr, max_output_bytes),
                               NoneVal)
    /\ UNCHANGED <<captured, max_output_bytes>>
    /\ UNCHANGED <<namespace, heap, history, res, exec_ns, ncalls, code_kind,
                   ns_before, heap_before, use_signal, sandbox_enabled>>
    /\ UNCHANGED <<mgrVars, regVars, toolVars, sigVars>>

\* Config.max_log_entries, here with REPL_MAX_LOG_ENTRIES=1 in the environment
max_log_entries == 1

\* server.py, repl_set_variable on the live session:
\* session.namespace[params.var_name] = value, for a value parsed from JSON
\* (a new object).  A variable name is any string of one character or more.
SetVariable(name, obj) ==
    /\ namespace' = DictSet(namespace, name, obj)
    /\ UNCHANGED <<heap, history, res, exec_ns, ncalls, code_kind, ns_before,
                   heap_before, raised, use_signal, sandbox_enabled>>
    /\ UNCHANGED <<mgrVars, regVars, outVars, toolVars, sigVars>>

\* server.py, repl_delete_variable on the live session: the error answer when
\* the name is not bound, else del session.namespace[params.var_name]
DeleteVariable(name) ==
    /\ namespace' = IF name \in DOMAIN namespace
                    THEN DictDel(namespace, name)
                    ELSE namespace
    /\ UNCHANGED <<heap, history, res, exec_ns, ncalls, code_kind, ns_before,
                   heap_before, raised, use_signal, sandbox_enabled>>
    /\ UNCHANGED <<mgrVars, regVars, outVars, toolVars, sigVars>>

\* server.py, repl_clear_namespace on the live session:
\* session.namespace.clear()
ClearNamespace ==
    /\ namespace' = EmptyDict
    /\ UNCHANGED <<heap, history, res, exec_ns, ncalls, code_kind, ns_before,
                   heap_before, raised, use_signal, sandbox_enabled>>
    /\ UNCHANGED <<mgrVars, regVars, outVars, toolVars, sigVars>>

\* What the files hold that repl_run_file runs: nothing but blanks,
\* y = <object 1>, or print(missing_name)
FileCodes ==
    {BlankCode, Script(<<Assign(NameY, 1)>>, "end"), Script(<<>>, "NameError")}

\* server.py, repl_run_file on the live session, for a file that exists and
\* holds code: session.namespace["__file__"] = file_path, sys.argv set,
\* execute_code(code, session, _config), sys.argv put back in the finally
\* clause.  (A path that is no readable file is answered before the session
\* is looked up and changes nothing.)
RunFile(code) ==
    /\ res.status # "blocked"
    /\ LET injected == DictSet(namespace, NameFile, PathObj)
       IN  /\ ns_before' = injected
           /\ IF IsBlank(code)
              THEN /\ namespace' = injected
                   /\ res' = ExecutionResult("error", NoObj, "ValueError",
                                              {}, {})
                   /\ exec_ns' = EmptyDict
                   /\ raised' = "none"
                   /\ UNCHANGED <<heap, history, ncalls>>
              ELSE /\ ncalls < MaxCalls
                   /\ LET r == Exec(code, BuildExecNs(injected), heap)
                          a == AfterExecOn(injected, history, r)
                      IN  /\ raised' = r.exc
                          /\ namespace' = a.namespace
                          /\ history' = a.history
                          /\ res' = a.res
                          /\ exec_ns' = r.ns
                          /\ heap' = r.heap
                   /\ ncalls' = ncalls + 1
    /\ code_kind' = code.kind
    /\ heap_before' = heap
    /\ UNCHANGED <<use_signal, sandbox_enabled>>
    /\ UNCHANGED <<mgrVars, regVars, outVars, toolVars, sigVars>>

-----------------------------------------------------------------------------
(* executor.py: execute_code statement by statement on a platform with      *)
(* signal.SIGALRM.  The alarm is asynchronous: once armed it goes off when  *)
(* the deadline is reached, wherever the call then is, and the interpreter  *)
(* runs the installed handler before the next bytecode.                     *)

\* signal.SIG_DFL, the SIGALRM disposition of a process that set none, and
\* executor._timeout_handler
SIG_DFL == "SIG_DFL"
timeout_handler == "_timeout_handler"

\* Line 114: old_handler = signal.signal(signal.SIGALRM, _timeout_handler)
InstallHandler ==
    /\ at = "idle"
    /\ use_signal
    /\ ncalls < MaxCalls
    /\ old_handler' = sigalrm
    /\ sigalrm' = timeout_handler
    /\ at' = "arm"
    /\ UNCHANGED <<alarm, execVars>>

\* Line 115: signal.alarm(config.timeout_seconds)
ArmAlarm ==
    /\ at = "arm"
    /\ alarm' = "armed"
    /\ at' = "exec"
    /\ UNCHANGED <<sigalrm, old_handler, execVars>>

\* Lines 117-119: exec(code, exec_ns) runs the script to its end or to the
\* statement that raises; a script that does not finish stays inside exec()
ExecScript(code) ==
    /\ at = "exec"
    /\ ~IsBlank(code)
    /\ LET r == Exec(code, BuildExecNs(namespace), heap)
       IN  /\ raised' = r.exc
           /\ exec_ns' = r.ns
           /\ heap' = r.heap
           /\ at' = IF r.exc = "hang" THEN "in_exec" ELSE "finally_alarm"
    /\ code_kind' = code.kind
    /\ ns_before' = namespace
    /\ heap_before' = heap
    /\ UNCHANGED <<namespace, history, res, ncalls, use_signal,
                   sandbox_enabled>>
    /\ UNCHANGED <<sigalrm, alarm, old_handler>>

\* The alarm goes off inside exec(): _timeout_handler raises TimeoutError in
\* the script's frame, which ends the script; the finally clause runs next
TimeoutInExec ==
    /\ at = "in_exec"
    /\ alarm = "armed"
    /\ alarm' = "off"
    /\ at' = "finally_alarm"
    /\ UNCHANGED <<sigalrm, old_handler, execVars>>

\* The alarm goes off after exec() has returned and before line 122 has
\* cancelled it: _timeout_handler raises TimeoutError inside the finally
\* clause, whose remaining statements do not run
TimeoutInFinally ==
    /\ at = "finally_alarm"
    /\ alarm = "armed"
    /\ alarm' = "off"
    /\ raised' = "TimeoutError"
    /\ at' = "return"
    /\ UNCHANGED <<namespace, heap, history, res, exec_ns, ncalls, code_kind,
                   ns_before, heap_before, use_signal, sandbox_enabled>>
    /\ UNCHANGED <<sigalrm, old_handler>>

\* Line 122: signal.alarm(0)
CancelAlarm ==
    /\ at = "finally_alarm"
    /\ alarm' = "off"
    /\ at' = "finally_restore"
    /\ UNCHANGED <<sigalrm, old_handler, execVars>>

\* Line 123: signal.signal(signal.SIGALRM, old_handler)
RestoreHandler ==
    /\ at = "finally_restore"
    /\ sigalrm' = old_handler
    /\ at' = "return"
    /\ UNCHANGED <<alarm, old_handler, execVars>>

\* Lines 125-200: the except clause that takes the exception in flight, or
\* the reconciliation, and the return (or the exception leaving the call)
ReturnCall ==
    /\ at = "return"
    /\ LET a == AfterExec([ns |-> exec_ns, heap |-> heap, exc |-> raised,
                           msg |-> NoMessage])
       IN  /\ namespace' = a.namespace
           /\ history' = a.history
           /\ res' = a.res
    /\ ncalls' = ncalls + 1
    /\ at' = "idle"
    /\ UNCHANGED <<heap, exec_ns, code_kind, ns_before, heap_before, raised,
                   use_signal, sandbox_enabled>>
    /\ UNCHANGED <<sigalrm, alarm, old_handler>>

\* The scripts of the calls followed statement by statement
AlarmCodes ==
    {BadSyntaxCode}
        \cup {Script(ss, e) :
                ss \in StmtSeqs,
                e \in {"end", "hang", "ZeroDivisionError", "SystemExit"}}

-----------------------------------------------------------------------------
(* session.py: Session and SessionManager.  Each `with self._lock` block is *)
(* one atomic step; between two blocks of one method other callers run and  *)
(* the clock may advance.                                                   *)

Callers == {1, 2}

\* Session ids: the k-th uuid4().hex[:12] drawn is k (no two draws collide).
Ids == 1..MaxIds
\* None, where a session id or a Session is expected
NoId == 0

\* Session(session_id=..., created_at=now, last_used=now): namespace and
\* history take their default_factory values
Session(id, t) ==
    [session_id |-> id, created_at |-> t, last_used |-> t,
     namespace |-> EmptyDict, history |-> <<>>]

\* Session.is_expired(ttl_minutes), at clock reading t
is_expired(s, t) == t - s.last_used > SessionTtl

\* The keys of self._sessions
SessionIds(ss) == {ss[i].session_id : i \in 1..Len(ss)}

\* The position of key id in the dict, 0 if it is not a key
IndexOf(ss, id) ==
    IF id \in SessionIds(ss)
    THEN CHOOSE i \in 1..Len(ss) : ss[i].session_id = id
    ELSE 0

\* del self._sessions[key] for the key at position i
RemoveAt(ss, i) == [j \in 1..(Len(ss) - 1) |-> IF j < i THEN ss[j] ELSE ss[j + 1]]

\* A variant of MinLastUsed that takes the first key of the dict.
FirstInserted(ss) == 1

\* A variant of MinLastUsed that takes the last key, in dict order, whose
\* last_used is smallest.
MinLastUsedLatest(ss) ==
    CHOOSE i \in 1..Len(ss) :
        /\ \A j \in 1..Len(ss) : ss[i].last_used <= ss[j].last_used
        /\ \A j \in (i + 1)..Len(ss) : ss[j].last_used > ss[i].last_used

\* min(self._sessions, key=lambda sid: self._sessions[sid].last_used): the
\* position of the first key, in dict order, whose last_used is smallest
MinLastUsed(ss) ==
    CHOOSE i \in 1..Len(ss) :
        /\ \A j \in 1..Len(ss) : ss[i].last_used <= ss[j].last_used
        /\ \A j \in 1..(i - 1) : ss[j].last_used > ss[i].last_used

\* A variant of EvictExpired that deletes nothing.
EvictNothing(ss, t) == ss

\* _evict_expired, at clock reading t
EvictExpired(ss, t) == SelectSeq(ss, LAMBDA s : ~is_expired(s, t))

\* A variant of EvictForCapacity that compares with > instead of >=.
EvictForCapacityLate(ss) ==
    IF Len(ss) > MaxSessions THEN RemoveAt(ss, MinLastUsed(ss)) ELSE ss

\* The locked block of create_session, before the insert
EvictForCapacity(ss) ==
    IF Len(ss) >= MaxSessions THEN RemoveAt(ss, MinLastUsed(ss)) ELSE ss

\* list_sessions' summary of one session (its two counts are not modelled)
Summary(s) ==
    [session_id |-> s.session_id, created_at |-> s.created_at,
     last_used |-> s.last_used]

\* What a method returned: the method and its argument, the session returned
\* (NoId for None), delete_session's boolean, list_sessions' list, the keys
\* the method's last locked block deleted and, for create_session, the
\* Session that was the value of oldest_id.
Returned(op, id, session, ok, listing, removed) ==
    [op |-> op, arg |-> id, session |-> session, ok |-> ok,
     listing |-> listing, removed |-> removed, oldest |-> {}]

NoReturn == Returned("none", NoId, NoId, FALSE, <<>>, {})

\* create_session, line 72: self._evict_expired().  The call is
\* create_session() or the one get_or_create(None) makes.
CreateEvict(c) ==
    /\ pc[c] \in {"idle", "create_evict"}
    /\ next_id < MaxIds
    /\ sessions' = EvictExpired(sessions, now)
    /\ pc' = [pc EXCEPT ![c] = "create_insert"]
    /\ UNCHANGED <<now, next_id, ret>>

\* create_session, lines 74-90: the locked block
CreateInsert(c) ==
    /\ pc[c] = "create_insert"
    /\ LET kept == EvictForCapacity(sessions)
           new == Session(next_id + 1, now)
       IN  /\ sessions' = Append(kept, new)
           /\ ret' = [Returned("create_session", NoId, new.session_id,
                               FALSE, <<>>,
                               SessionIds(sessions) \ SessionIds(kept))
                         EXCEPT !.oldest =
                            {sessions[i] : i \in {j \in 1..Len(sessions) :
                                sessions[j].session_id
                                    \notin SessionIds(kept)}}]
    /\ next_id' = next_id + 1
    /\ pc' = [pc EXCEPT ![c] = "idle"]
    /\ UNCHANGED now

\* A variant of GetSessionStep without the expiry check.
GetSessionStepNoExpiry(ss, id, t) ==
    LET i == IndexOf(ss, id)
    IN  IF i = 0
        THEN [sessions |-> ss, session |-> NoId, removed |-> {}]
        ELSE [sessions |-> [ss EXCEPT ![i].last_used = t],
              session |-> id, removed |-> {}]

\* A variant of GetSessionStep without the touch().
GetSessionStepNoTouch(ss, id, t) ==
    LET i == IndexOf(ss, id)
    IN  IF i = 0
        THEN [sessions |-> ss, session |-> NoId, removed |-> {}]
        ELSE IF is_expired(ss[i], t)
        THEN [sessions |-> RemoveAt(ss, i), session |-> NoId, removed |-> {id}]
        ELSE [sessions |-> ss, session |-> id, removed |-> {}]

\* The registry and the result of get_session(id) at clock reading t
GetSessionStep(ss, id, t) ==
    LET i == IndexOf(ss, id)
    IN  IF i = 0
        THEN [sessions |-> ss, session |-> NoId, removed |-> {}]
        ELSE IF is_expired(ss[i], t)
        THEN [sessions |-> RemoveAt(ss, i), session |-> NoId, removed |-> {id}]
        ELSE [sessions |-> [ss EXCEPT ![i].last_used = t],
              session |-> id, removed |-> {}]

\* get_session(id)
GetSession(c, id) ==
    /\ pc[c] = "idle"
    /\ LET g == GetSessionStep(sessions, id, now)
       IN  /\ sessions' = g.sessions
           /\ ret' = Returned("get_session", id, g.session, FALSE, <<>>,
                              g.removed)
    /\ UNCHANGED <<now, next_id, pc>>

\* A variant of GetOrCreate that returns whatever session the id is a key of,
\* without get_session's expiry check.
GetOrCreateAnyKey(c, id) ==
    /\ pc[c] = "idle"
    /\ LET g == GetSessionStepNoExpiry(sessions, id, now)
       IN  /\ sessions' = g.sessions
           /\ IF g.session # NoId
              THEN /\ ret' = Returned("get_or_create", id, g.session, FALSE,
                                      <<>>, g.removed)
                   /\ pc' = pc
              ELSE /\ ret' = ret
                   /\ pc' = [pc EXCEPT ![c] = "create_evict"]
    /\ UNCHANGED <<now, next_id>>

\* get_or_create(id), lines 106-110, for an id that is not None: the lookup;
\* on a miss create_session is called next
GetOrCreate(c, id) ==
    /\ pc[c] = "idle"
    /\ LET g == GetSessionStep(sessions, id, now)
       IN  /\ sessions' = g.sessions
           /\ IF g.session # NoId
              THEN /\ ret' = Returned("get_or_create", id, g.session, FALSE,
                                      <<>>, g.removed)
                   /\ pc' = pc
              ELSE /\ ret' = ret
                   /\ pc' = [pc EXCEPT ![c] = "create_evict"]
    /\ UNCHANGED <<now, next_id>>

\* delete_session(id)
DeleteSession(c, id) ==
    /\ pc[c] = "idle"
    /\ LET i == IndexOf(sessions, id)
       IN  /\ sessions' = IF i = 0 THEN sessions ELSE RemoveAt(sessions, i)
           /\ ret' = Returned("delete_session", id, NoId, i # 0, <<>>,
                              IF i = 0 THEN {} ELSE {id})
    /\ UNCHANGED <<now, next_id, pc>>

\* list_sessions, line 117: self._evict_expired()
ListEvict(c) ==
    /\ pc[c] = "idle"
    /\ sessions' = EvictExpired(sessions, now)
    /\ pc' = [pc EXCEPT ![c] = "list_snapshot"]
    /\ UNCHANGED <<now, next_id, ret>>

\* list_sessions, lines 118-128: the locked snapshot
ListSnapshot(c) ==
    /\ pc[c] = "list_snapshot"
    /\ ret' = Returned("list_sessions", NoId, NoId, FALSE,
                       [i \in 1..Len(sessions) |-> Summary(sessions[i])], {})
    /\ pc' = [pc EXCEPT ![c] = "idle"]
    /\ UNCHANGED <<sessions, now, next_id>>

\* The count property, read by a caller that is in no other method:
\* return len(self._sessions), with no `with self._lock:` around it
Count(c) ==
    /\ pc[c] = "idle"
    /\ total' = Len(sessions)
    /\ lock_held' = FALSE
    /\ UNCHANGED <<sessions, now, next_id, pc, ret>>

\* datetime.now(timezone.utc) moves on
Tick ==
    /\ now < MaxTime
    /\ now' = now + 1
    /\ UNCHANGED <<sessions, next_id, pc, ret>>

-----------------------------------------------------------------------------
(* server.py: the tools, and the process state they and execute_code use *)

\* The locals of a tool between its steps: the Session get_or_create gave
\* it, repl_run_file's original_argv, and the value of _sessions.count that
\* repl_list_sessions has put in its answer.
Frame(tool, session, original_argv, count) ==
    [tool |-> tool, session |-> session, original_argv |-> original_argv,
     total |-> count]
NoFrame == Frame("none", NoId, <<>>, 0)

\* sys.argv as the interpreter set it when the server started
ArgvAtStart == <<"mcp-python-repl">>

\* json.dumps({"status": "ok", "total": ..., "sessions": ...})
Response(status, count, listing) ==
    [status |-> status, total |-> count, sessions |-> listing]
NoResponse == Response("none", 0, <<>>)

\* The paths and the argument strings, split, of the repl_run_file calls
FilePaths == {"/tmp/a.py", "/tmp/b.py"}
SplitArgs == {<<>>, <<"-v">>}

\* repl_run_file, lines 265-270, on the live session, for a readable file:
\* session.namespace["__file__"] = file_path;
\* original_argv = sys.argv[:]; sys.argv = [file_path] + args.
\* No more calls are let in than MaxCalls can run.
RunFileEnter(c, path, args) ==
    /\ frame[c].tool = "none"
    /\ ncalls + Cardinality({d \in Callers : frame[d].tool # "none"})
          < MaxCalls
    /\ namespace' = DictSet(namespace, NameFile, PathObj)
    /\ frame' = [frame EXCEPT ![c] = Frame("repl_run_file", NoId, sys_argv, 0)]
    /\ sys_argv' = <<path>> \o args
    /\ UNCHANGED <<heap, history, res, exec_ns, ncalls, code_kind, ns_before,
                   heap_before, raised, use_signal, sandbox_enabled>>
    /\ UNCHANGED response

\* repl_run_file, lines 272-280: execute_code(code, session, _config), the
\* answer, and in the finally clause sys.argv = original_argv
RunFileExecute(c, code) ==
    /\ frame[c].tool = "repl_run_file"
    /\ ExecuteBlank(code) \/ ExecuteRun(code)
    /\ code_kind' = code.kind
    /\ ns_before' = namespace
    /\ heap_before' = heap
    /\ sys_argv' = frame[c].original_argv
    /\ frame' = [frame EXCEPT ![c] = NoFrame]
    /\ UNCHANGED <<use_signal, sandbox_enabled>>
    /\ UNCHANGED response

\* repl_run_code, line 217: session = _sessions.get_or_create(session_id),
\* for an id that is not None: the lookup.  On a hit the caller holds the
\* Session; on a miss get_or_create goes on to create_session
RunCodeLookup(c, id) ==
    /\ frame[c].tool = "none"
    /\ GetOrCreate(c, id)
    /\ frame' = [frame EXCEPT ![c] =
                    Frame("repl_run_code",
                          IF pc'[c] = "idle" THEN id ELSE NoId, <<>>, 0)]

\* repl_run_code, line 217, without a session id: get_or_create(None) calls
\* create_session, whose first step is the sweep
RunCodeCreate(c) ==
    /\ frame[c].tool = "none"
    /\ pc[c] = "idle"
    /\ CreateEvict(c)
    /\ frame' = [frame EXCEPT ![c] = Frame("repl_run_code", NoId, <<>>, 0)]

\* The sweep of the create_session that a get_or_create miss leads to
RunCodeCreateEvict(c) ==
    /\ frame[c].tool = "repl_run_code"
    /\ pc[c] = "create_evict"
    /\ CreateEvict(c)
    /\ frame' = frame

\* The locked block of that create_session: the caller holds the new Session
RunCodeCreateInsert(c) ==
    /\ frame[c].tool = "repl_run_code"
    /\ CreateInsert(c)
    /\ frame' = [frame EXCEPT ![c].session = ret'.session]

\* The scripts of the calls that run next to other callers of the store
RunCodes == {Script(<<Assign(NameX, 1)>>, e) : e \in {"end", "NameError"}}

\* repl_run_code, lines 218-220: execute_code(code, session, _config) on the
\* Session object the caller holds.  It takes no lock and looks nothing up:
\* it writes to that object, be it still a value of the registry or not
\* (then no lookup sees what it wrote).
RunCodeExecute(c, code) ==
    /\ frame[c].tool = "repl_run_code"
    /\ frame[c].session # NoId
    /\ pc[c] = "idle"
    /\ LET i == IndexOf(sessions, frame[c].session)
       IN  IF i = 0
           THEN sessions' = sessions
           ELSE /\ Len(sessions[i].history) < MaxCalls
                /\ LET a == AfterExecOn(
                                sessions[i].namespace, sessions[i].history,
                                Exec(code, BuildExecNs(sessions[i].namespace),
                                     heap))
                   IN  sessions' = [sessions EXCEPT
                                       ![i].namespace = a.namespace,
                                       ![i].history = a.history]
    /\ frame' = [frame EXCEPT ![c] = NoFrame]
    /\ UNCHANGED <<now, next_id, pc, ret>>

\* repl_list_sessions, line 543: the dict display evaluates its entries in
\* order, "total": _sessions.count first
ReplListCount(c) ==
    /\ frame[c].tool = "none"
    /\ Count(c)
    /\ frame' = [frame EXCEPT ![c] =
                    Frame("repl_list_sessions", NoId, <<>>, total')]
    /\ response' = response

\* repl_list_sessions, line 544: _sessions.list_sessions(), its sweep
ReplListEvict(c) ==
    /\ frame[c].tool = "repl_list_sessions"
    /\ ListEvict(c)
    /\ lock_held' = TRUE
    /\ UNCHANGED <<total, frame, response>>

\* repl_list_sessions, lines 541-545: the snapshot of list_sessions and the
\* answer made of the two entries
ReplListSnapshot(c) ==
    /\ frame[c].tool = "repl_list_sessions"
    /\ ListSnapshot(c)
    /\ lock_held' = TRUE
    /\ response' = Response("ok", frame[c].total, ret'.listing)
    /\ frame' = [frame EXCEPT ![c] = NoFrame]
    /\ total' = total

\* create_session() and delete_session(id) called by a caller that is in no
\* tool
PlainCreateEvict(c) ==
    /\ frame[c].tool = "none"
    /\ CreateEvict(c)
    /\ frame' = frame

PlainCreateInsert(c) ==
    /\ frame[c].tool = "none"
    /\ CreateInsert(c)
    /\ frame' = frame

PlainDeleteSession(c, id) ==
    /\ frame[c].tool = "none"
    /\ DeleteSession(c, id)
    /\ frame' = frame

-----------------------------------------------------------------------------
(* Specifications *)

InitExec ==
    /\ namespace = EmptyDict
    /\ heap = [o \in Objs \cup {ModuleObj} |-> 0]
    /\ history = <<>>
    /\ res = NoResult
    /\ exec_ns = EmptyDict
    /\ ncalls = 0
    /\ code_kind = "none"
    /\ ns_before = EmptyDict
    /\ heap_before = [o \in Objs \cup {ModuleObj} |-> 0]
    /\ raised = "none"

InitMgr ==
    /\ sessions = <<>>
    /\ now = 0
    /\ next_id = 0
    /\ pc = [c \in Callers |-> "idle"]
    /\ ret = NoReturn
    /\ lock_held = TRUE
    /\ total = 0

\* No caller is inside a tool; the process as the interpreter started it
InitProc ==
    /\ frame = [c \in Callers |-> NoFrame]
    /\ sys_argv = ArgvAtStart
    /\ response = NoResponse
    /\ sigalrm = SIG_DFL
    /\ alarm = "off"
    /\ old_handler = NoneVal
    /\ at = "idle"

\* Nothing captured, nothing returned yet
InitOut ==
    /\ captured = NoOutput
    /\ max_output_bytes = 0
    /\ returned = NoOutput

\* A platform with or without signal.SIGALRM, the sandbox off (the default)
Init ==
    /\ InitExec
    /\ use_signal \in BOOLEAN
    /\ sandbox_enabled = FALSE
    /\ InitMgr
    /\ InitProc
    /\ InitOut

\* The same, for either setting of REPL_SANDBOX
InitSandbox ==
    /\ InitExec
    /\ use_signal \in BOOLEAN
    /\ sandbox_enabled \in BOOLEAN
    /\ InitMgr
    /\ InitProc
    /\ InitOut

\* The session store does not depend on the platform or on the sandbox
InitStore ==
    /\ InitExec
    /\ use_signal = TRUE
    /\ sandbox_enabled = FALSE
    /\ InitMgr
    /\ InitProc
    /\ InitOut

NextExec == ExecuteCode

SpecExec == Init /\ [][NextExec]_vars

\* execute_code and repl_set_variable on one session
DoSetVariable == \E name \in {NameX, NameT} : SetVariable(name, 1)

NextTools ==
    \/ ExecuteToolCode
    \/ DoSetVariable

SpecTools == Init /\ [][NextTools]_vars

\* All the tools that act on a session, on one live session
DoSetAnyVariable ==
    \E name \in {NameX, NameT, NameResult} : SetVariable(name, 1)
DoDeleteVariable == \E name \in {NameX, NameT} : DeleteVariable(name)
DoClearNamespace == ClearNamespace
DoRunFile == \E code \in FileCodes : RunFile(code)

NextSession ==
    \/ ExecuteSessionCode
    \/ DoSetAnyVariable
    \/ DoDeleteVariable
    \/ DoClearNamespace
    \/ DoRunFile

SpecSession == InitStore /\ [][NextSession]_vars

NextSandbox == ExecuteImport

SpecSandbox == InitSandbox /\ [][NextSandbox]_vars

\* Every step below but DoTick is one `with self._lock:` block.
WithLock ==
    /\ lock_held' = TRUE
    /\ UNCHANGED <<total, execVars, outVars, toolVars, sigVars>>

DoCreateEvict == (\E c \in Callers : CreateEvict(c)) /\ WithLock
DoCreateInsert == (\E c \in Callers : CreateInsert(c)) /\ WithLock
DoGetSession == (\E c \in Callers, id \in Ids : GetSession(c, id)) /\ WithLock
DoGetOrCreate == (\E c \in Callers, id \in Ids : GetOrCreate(c, id)) /\ WithLock
DoDeleteSession ==
    (\E c \in Callers, id \in Ids : DeleteSession(c, id)) /\ WithLock
DoListEvict == (\E c \in Callers : ListEvict(c)) /\ WithLock
DoListSnapshot == (\E c \in Callers : ListSnapshot(c)) /\ WithLock
DoTick == Tick /\ UNCHANGED <<regVars, execVars, outVars, toolVars, sigVars>>

NextMgr ==
    \/ DoCreateEvict
    \/ DoCreateInsert
    \/ DoGetSession
    \/ DoGetOrCreate
    \/ DoDeleteSession
    \/ DoListEvict
    \/ DoListSnapshot
    \/ DoTick

SpecMgr == InitStore /\ [][NextMgr]_vars

\* execute_code statement by statement, in a process whose SIGALRM handler
\* is the default one or one the embedding program installed
InitAlarm ==
    /\ InitExec
    /\ use_signal = TRUE
    /\ sandbox_enabled = FALSE
    /\ InitMgr
    /\ InitOut
    /\ frame = [c \in Callers |-> NoFrame]
    /\ sys_argv = ArgvAtStart
    /\ response = NoResponse
    /\ sigalrm \in {SIG_DFL, "embedder_handler"}
    /\ alarm = "off"
    /\ old_handler = NoneVal
    /\ at = "idle"

\* execute_code touches neither the session store nor the tools' state
OnlyExecutor == UNCHANGED <<mgrVars, regVars, outVars, toolVars>>

DoInstallHandler == InstallHandler /\ OnlyExecutor
DoArmAlarm == ArmAlarm /\ OnlyExecutor
DoExecScript == (\E code \in AlarmCodes : ExecScript(code)) /\ OnlyExecutor
DoTimeoutInExec == TimeoutInExec /\ OnlyExecutor
DoTimeoutInFinally == TimeoutInFinally /\ OnlyExecutor
DoCancelAlarm == CancelAlarm /\ OnlyExecutor
DoRestoreHandler == RestoreHandler /\ OnlyExecutor
DoReturnCall == ReturnCall /\ OnlyExecutor

NextAlarm ==
    \/ DoInstallHandler
    \/ DoArmAlarm
    \/ DoExecScript
    \/ DoTimeoutInExec
    \/ DoTimeoutInFinally
    \/ DoCancelAlarm
    \/ DoRestoreHandler
    \/ DoReturnCall

SpecAlarm == InitAlarm /\ [][NextAlarm]_vars

\* repl_run_code next to other callers of the session store
StoreStep ==
    /\ lock_held' = TRUE
    /\ UNCHANGED <<total, execVars, outVars, sys_argv, response, sigVars>>

DoRunCodeLookup ==
    (\E c \in Callers, id \in Ids : RunCodeLookup(c, id)) /\ StoreStep
DoRunCodeCreate == (\E c \in Callers : RunCodeCreate(c)) /\ StoreStep
DoRunCodeCreateEvict == (\E c \in Callers : RunCodeCreateEvict(c)) /\ StoreStep
DoRunCodeCreateInsert ==
    (\E c \in Callers : RunCodeCreateInsert(c)) /\ StoreStep
DoRunCodeExecute ==
    (\E c \in Callers, code \in RunCodes : RunCodeExecute(c, code))
        /\ UNCHANGED <<regVars, execVars, outVars, sys_argv, response, sigVars>>
DoPlainCreateEvict == (\E c \in Callers : PlainCreateEvict(c)) /\ StoreStep
DoPlainCreateInsert == (\E c \in Callers : PlainCreateInsert(c)) /\ StoreStep
DoPlainDeleteSession ==
    (\E c \in Callers, id \in Ids : PlainDeleteSession(c, id)) /\ StoreStep

NextRun ==
    \/ DoRunCodeLookup
    \/ DoRunCodeCreate
    \/ DoRunCodeCreateEvict
    \/ DoRunCodeCreateInsert
    \/ DoRunCodeExecute
    \/ DoPlainCreateEvict
    \/ DoPlainCreateInsert
    \/ DoPlainDeleteSession
    \/ DoTick

SpecRun == InitStore /\ [][NextRun]_vars

\* repl_run_file callers on one live session
DoRunFileEnter ==
    (\E c \in Callers, path \in FilePaths, args \in SplitArgs :
        RunFileEnter(c, path, args))
        /\ UNCHANGED <<mgrVars, regVars, outVars, sigVars>>
DoRunFileExecute ==
    (\E c \in Callers, code \in FileCodes : RunFileExecute(c, code))
        /\ UNCHANGED <<mgrVars, regVars, outVars, sigVars>>

NextArgv ==
    \/ DoRunFileEnter
    \/ DoRunFileExecute

SpecArgv == InitStore /\ [][NextArgv]_vars

\* repl_list_sessions next to callers that create and delete sessions
DoReplListCount ==
    (\E c \in Callers : ReplListCount(c))
        /\ UNCHANGED <<execVars, outVars, sys_argv, sigVars>>
DoReplListEvict ==
    (\E c \in Callers : ReplListEvict(c))
        /\ UNCHANGED <<execVars, outVars, sys_argv, sigVars>>
DoReplListSnapshot ==
    (\E c \in Callers : ReplListSnapshot(c))
        /\ UNCHANGED <<execVars, outVars, sys_argv, sigVars>>

NextList ==
    \/ DoReplListCount
    \/ DoReplListEvict
    \/ DoReplListSnapshot
    \/ DoPlainCreateEvict
    \/ DoPlainCreateInsert
    \/ DoPlainDeleteSession
    \/ DoTick

SpecList == InitStore /\ [][NextList]_vars

\* The output path of one call: any captured texts, any budget
InitTruncate ==
    /\ InitExec
    /\ use_signal = TRUE
    /\ sandbox_enabled = FALSE
    /\ InitMgr
    /\ InitProc
    /\ captured \in {Output("captured", o, e, r) :
                        o \in Texts, e \in Texts, r \in Texts}
    /\ max_output_bytes \in 0..MaxBudget
    /\ returned = NoOutput

DoReturnError == \E exc \in ErrorKinds : ReturnError(exc)

NextTruncate ==
    \/ ReturnCompleted
    \/ ReturnTimeout
    \/ DoReturnError

SpecTruncate == InitTruncate /\ [][NextTruncate]_vars

\* The session store with callers that also read the count property
DoCount ==
    (\E c \in Callers : Count(c))
        /\ UNCHANGED <<execVars, outVars, toolVars, sigVars>>

NextCount ==
    \/ DoCreateEvict
    \/ DoCreateInsert
    \/ DoGetSession
    \/ DoGetOrCreate
    \/ DoDeleteSession
    \/ DoListEvict
    \/ DoListSnapshot
    \/ DoTick
    \/ DoCount

SpecCount == InitStore /\ [][NextCount]_vars

-----------------------------------------------------------------------------
(* Properties of execute_code, under SpecExec *)

\* The keys of exec_ns that the script can have bound: all but the injected
\* __builtins__.
BoundNames == (DOMAIN exec_ns) \ {NameBuiltins}

\* Neither reserved (leading underscore) nor the returned-value slot; written
\* out on the characters of the name.
IsUserName(k) == k # <<>> /\ k[1] # "_" /\ k # NameResult

\* C1: after a completed call the session namespace is the namespace before
\* the call with exactly the names in new_vars and modified_vars bound to
\* what exec() left for them; every other name (also _-names, result and
\* names the script deleted or did not touch) has the binding it had.
C1_FrameOfCompleted ==
    res.status = "completed" =>
        LET reported == res.new_vars \cup res.modified_vars
        IN  /\ DOMAIN namespace = (DOMAIN ns_before) \cup reported
            /\ \A k \in reported :
                  k \in DOMAIN exec_ns /\ namespace[k] = exec_ns[k]
            /\ \A k \in (DOMAIN namespace) \ reported :
                  k \in DOMAIN ns_before /\ namespace[k] = ns_before[k]
            /\ \A k \in {NameT, NameResult} \ (DOMAIN ns_before) :
                  k \notin DOMAIN namespace

\* A completed call that bound the new name y while x, bound earlier, was
\* left alone.
C1_Witness ==
    /\ res.status = "completed"
    /\ NameX \in DOMAIN ns_before
    /\ NameY \in res.new_vars
    /\ NameX \notin res.new_vars \cup res.modified_vars

\* C2: a call that ends with any status other than completed leaves every
\* binding of the session namespace as it was.
C2_NoReconcileOnFailure ==
    (code_kind # "none" /\ res.status # "completed") => namespace = ns_before

\* An execution that rebound or newly bound a user name and then failed or
\* timed out.
C2_Witness ==
    /\ res.status \in {"error", "timeout"}
    /\ \E k \in BoundNames :
          /\ IsUserName(k)
          /\ k \notin DOMAIN ns_before \/ exec_ns[k] # ns_before[k]

\* C3 as stated: every name a completed execution bound is seen, with that
\* binding, by the next execution, and new_vars holds only names that were
\* absent before the call.
C3_EveryBoundNameVisible ==
    res.status = "completed" =>
        /\ \A k \in BoundNames :
              /\ k \in DOMAIN BuildExecNs(namespace)
              /\ BuildExecNs(namespace)[k] = exec_ns[k]
        /\ res.new_vars \cap DOMAIN ns_before = {}

\* C3, amended: every name other than result and the _-names that a
\* completed execution bound is seen, with that binding, by the next
\* execution (a use of it raises no NameError); no call removes a binding
\* from the session, and a call changes one only when it reports the name
\* as modified; new_vars holds only names absent before the call.
C3_UserNamesVisible ==
    /\ res.status = "completed" =>
          /\ \A k \in BoundNames :
                IsUserName(k) =>
                    /\ k \in DOMAIN BuildExecNs(namespace)
                    /\ BuildExecNs(namespace)[k] = exec_ns[k]
                    /\ StepStmt(Read(k), BuildExecNs(namespace), heap).exc
                          = "none"
          /\ res.new_vars \cap DOMAIN ns_before = {}
    /\ \A k \in DOMAIN ns_before :
          /\ k \in DOMAIN namespace
          /\ namespace[k] # ns_before[k] => k \in res.modified_vars

\* The second call completes and returns a value while x, bound by the
\* first call, is in its namespace with the same binding and is not new.
C3_Witness ==
    /\ ncalls = 2
    /\ res.status = "completed"
    /\ res.result # NoObj
    /\ NameX \in DOMAIN ns_before
    /\ NameX \in DOMAIN exec_ns
    /\ exec_ns[NameX] = ns_before[NameX]
    /\ NameX \notin res.new_vars

\* C4: the history holds one record per call with non-blank code, and the
\* last such call's record carries the status it returned.
C4_OneRecordPerCall ==
    /\ Len(history) = ncalls
    /\ (code_kind \in {"syntax", "script"}) =>
          /\ history # <<>>
          /\ history[Len(history)].status = res.status

\* C5: a call with empty or whitespace-only code returns the ValueError
\* result, runs nothing, appends no record and leaves the session as it was.
C5_BlankCode ==
    [][code_kind' \in {"empty", "blank"} =>
          /\ res'.status = "error"
          /\ res'.error_type = "ValueError"
          /\ exec_ns' = EmptyDict
          /\ history' = history
          /\ namespace' = namespace
          /\ heap' = heap]_vars

\* Whitespace-only code refused on a session that has a binding and a record.
C5_Witness ==
    /\ code_kind = "blank"
    /\ res.error_type = "ValueError"
    /\ namespace # EmptyDict
    /\ history # <<>>

\* C6: no call stores the script's result binding in the session namespace
\* (the key result is as it was before the call); a completed call returns
\* the binding to its caller.
C6_ResultNotPersisted ==
    /\ NameResult \in DOMAIN namespace <=> NameResult \in DOMAIN ns_before
    /\ NameResult \in DOMAIN namespace =>
          namespace[NameResult] = ns_before[NameResult]
    /\ (res.status = "completed" /\ NameResult \in DOMAIN exec_ns) =>
          res.result = exec_ns[NameResult]

\* A completed call whose script bound result: returned, not stored.
C6_Witness ==
    /\ res.status = "completed"
    /\ NameResult \in DOMAIN exec_ns
    /\ res.result = exec_ns[NameResult]
    /\ NameResult \notin DOMAIN namespace

\* C7 as stated: of the names bound after a completed execution, one present
\* before is modified exactly when its reference changed, and one absent
\* before is new.
C7_ClassifiesEveryName ==
    res.status = "completed" =>
        \A k \in BoundNames :
            /\ k \in DOMAIN ns_before =>
                  (k \in res.modified_vars <=> exec_ns[k] # ns_before[k])
            /\ k \notin DOMAIN ns_before => k \in res.new_vars

\* C7, amended: the same for every name other than result and the _-names;
\* those are classified neither as new nor as modified.
C7_ClassifiesUserNames ==
    res.status = "completed" =>
        /\ \A k \in BoundNames :
              IsUserName(k) =>
                  /\ k \in DOMAIN ns_before =>
                        /\ k \in res.modified_vars <=>
                              exec_ns[k] # ns_before[k]
                        /\ k \notin res.new_vars
                  /\ k \notin DOMAIN ns_before =>
                        /\ k \in res.new_vars
                        /\ k \notin res.modified_vars
        /\ \A k \in res.new_vars \cup res.modified_vars :
              k \in BoundNames /\ IsUserName(k)

\* x rebound to another object with equal content: classified as modified.
C7_Witness ==
    /\ res.status = "completed"
    /\ NameX \in DOMAIN ns_before
    /\ NameX \in DOMAIN exec_ns
    /\ exec_ns[NameX] # ns_before[NameX]
    /\ heap[exec_ns[NameX]] = heap[ns_before[NameX]]
    /\ NameX \in res.modified_vars

\* C13: a call with non-blank code ends in the outcome its script's way of
\* stopping selects: not finishing within the deadline gives timeout with
\* the hint; a SyntaxError gives error / SyntaxError with the line; a
\* NameError gives error / NameError; any other exception gives error with
\* its kind name, message and trace; the end of the script gives completed.
C13_OutcomeByPriority ==
    (code_kind \in {"syntax", "script"}) =>
        CASE raised \in {"hang", "hang_caught"} ->
                /\ res.status = "timeout"
                /\ res.hint = TimeoutHint
          [] raised = "SyntaxError" ->
                /\ res.status = "error"
                /\ res.error_type = "SyntaxError"
                /\ res.error_line # NoneVal
          [] raised = "NameError" ->
                /\ res.status = "error"
                /\ res.error_type = "NameError"
          [] raised = "none" ->
                res.status = "completed"
          [] OTHER ->
                /\ res.status = "error"
                /\ res.error_type = raised
                /\ res.error_traceback # NoneVal

C15_BlockedImportsRejected ==
    [][/\ \A m \in ImportedModules \cap SANDBOXED_BLOCKED_MODULES :
            (sandbox_enabled /\ ExecuteRun(Script(<<Import(m)>>, "end"))) =>
                /\ res'.status = "error"
                /\ res'.error_type = "ImportError"
                /\ res'.error_message.about = m
                /\ res'.error_message.listing = SANDBOXED_BLOCKED_MODULES
       /\ ~sandbox_enabled => raised' # "ImportError"]_vars

\* C16: no call stays inside exec() past its deadline, and a script that
\* does not finish within the deadline gives status timeout.
C16_ReturnsAtDeadline ==
    /\ res.status # "blocked"
    /\ raised \in {"hang", "hang_caught"} => res.status = "timeout"

\* C18: the history never holds more than max_log_entries records.
C18_HistoryBounded == Len(history) <= max_log_entries

\* C19: every call with non-blank code returns an ExecutionResult with status
\* completed, error or timeout, and a failure is in the last history record.
C19_AlwaysAResult ==
    (code_kind \in {"syntax", "script"}) =>
        /\ res.status \in {"completed", "error", "timeout"}
        /\ raised \in RaisedKinds \cup {"NameError", "hang"} =>
              /\ res.status \in {"error", "timeout"}
              /\ history # <<>>
              /\ history[Len(history)].status = res.status

-----------------------------------------------------------------------------
(* Properties of the deadline mechanism, under SpecAlarm *)

\* C23: whenever a call that armed the deadline has returned, no alarm is
\* armed and the SIGALRM handler is the one that was installed when the call
\* began.
C23_DisarmedAndRestored ==
    (at = "idle" /\ ncalls > 0) =>
        /\ alarm = "off"
        /\ sigalrm = old_handler

-----------------------------------------------------------------------------
(* Properties of the tools on one session, under SpecSession *)

\* C21: whenever no call is in progress, the session namespace holds neither
\* the name result nor a name that begins with "_".
C21_NoReservedNames ==
    \A k \in DOMAIN namespace : k # NameResult /\ k[1] # "_"

\* C26: a call (of execute_code, also the one repl_run_file makes) that
\* completes and whose script has no assignment to result returns no value
\* and leaves no binding of result in its execution namespace, whatever the
\* session holds; and a script that starts by reading result gets a
\* NameError, whatever the calls before returned or stored.
C26_NoStaleResult ==
    [][/\ (ncalls' # ncalls /\ res'.status = "completed") =>
            \A code \in SessionCodes \cup FileCodes :
                (/\ \A i \in 1..Len(code.stmts) :
                       ~(code.stmts[i].op = "assign"
                            /\ code.stmts[i].name = NameResult)
                 /\ ExecuteRun(code) \/ RunFile(code))
                =>
                /\ res'.result = NoObj
                /\ NameResult \notin DOMAIN exec_ns'
       /\ \A e \in {"end", "NameError"} :
            ExecuteRun(Script(<<Read(NameResult)>>, e)) =>
                /\ res'.error_type = "NameError"
                /\ res'.error_message.about = NameResult]_vars

\* The second call completed and returned no value on a session in which
\* repl_set_variable had stored a value under the name result after the
\* first call had completed.
C26_Witness ==
    /\ ncalls = 2
    /\ history[1].status = "completed"
    /\ res.status = "completed"
    /\ res.result = NoObj
    /\ NameResult \in DOMAIN ns_before
    /\ NameResult \notin DOMAIN exec_ns

\* C27: every operation on the session leaves the records the history holds
\* as they are and where they are; it adds at most one record, after all of
\* them, and only a call that ran code adds one: the record of that call,
\* with the status the call returned.
C27_HistoryAppendOnly ==
    [][/\ Len(history') >= Len(history)
       /\ SubSeq(history', 1, Len(history)) = history
       /\ Len(history') <= Len(history) + 1
       /\ Len(history') = Len(history) + 1 =>
             /\ ncalls' = ncalls + 1
             /\ history'[Len(history')].status = res'.status
       /\ ncalls' = ncalls => history' = history]_vars

\* A failed call and then a completed one that bound a new name, their
\* records in that order, on a session whose namespace was cleared since.
C27_Witness ==
    /\ Len(history) = 2
    /\ history[1].status = "error"
    /\ history[2].status = "completed"
    /\ history[2].new_vars # {}
    /\ namespace = EmptyDict

-----------------------------------------------------------------------------
(* Properties of the SessionManager, under SpecMgr *)

\* now - last_used > ttl, written out
OlderThanTtl(s, t) == t - s.last_used > SessionTtl

\* C8: when the locked block of create_session finds max_sessions sessions,
\* none of them expired, it deletes exactly one, whose last_used is smallest,
\* and inserts the new one; a lookup of the deleted id then finds nothing and
\* a lookup of any other session held before finds it.
C8_EvictsLeastRecentlyUsed ==
    [][\A c \in Callers :
          (/\ pc[c] = "create_insert"
           /\ pc'[c] = "idle"
           /\ Len(sessions) = MaxSessions
           /\ \A i \in 1..Len(sessions) : ~OlderThanTtl(sessions[i], now))
          =>
          \E i \in 1..Len(sessions) :
              LET gone == sessions[i].session_id
              IN  /\ \A j \in 1..Len(sessions) :
                        sessions[i].last_used <= sessions[j].last_used
                  /\ ret'.removed = {gone}
                  /\ ret'.session \notin SessionIds(sessions)
                  /\ SessionIds(sessions') =
                        (SessionIds(sessions) \ {gone}) \cup {ret'.session}
                  /\ Len(sessions') = MaxSessions
                  /\ GetSessionStep(sessions', gone, now').session = NoId
                  /\ \A id \in SessionIds(sessions) \ {gone} :
                        GetSessionStep(sessions', id, now').session = id]_vars

\* create_session at capacity deleted a session that was not the first
\* inserted: an older session had been used since.
C8_Witness ==
    /\ ret.op = "create_session"
    /\ Len(sessions) = MaxSessions
    /\ \E gone \in ret.removed :
          \E i \in 1..Len(sessions) : sessions[i].session_id < gone

\* C9: the registry never holds more than max_sessions sessions.
C9_BoundedPopulation == Len(sessions) <= MaxSessions

\* A full registry after a capacity eviction, while another caller is
\* between the two locked blocks of its own create_session.
C9_Witness ==
    /\ Len(sessions) = MaxSessions
    /\ ret.op = "create_session"
    /\ ret.removed # {}
    /\ \E c \in Callers : pc[c] = "create_insert"

\* C10: a lookup (get_session, also the one get_or_create makes) of a session
\* whose last_used is older than the TTL returns nothing and deletes it; a
\* lookup of an id that is not a key returns nothing and changes nothing; an
\* id that left the registry does not come back, and list_sessions lists
\* only keys of the registry, so a deleted session is in no later listing.
C10_ExpiredNeverReturned ==
    [][/\ \A c \in Callers, id \in Ids :
            (GetSession(c, id) \/ GetOrCreate(c, id)) =>
                LET i == IndexOf(sessions, id)
                IN  /\ (i # 0 /\ OlderThanTtl(sessions[i], now)) =>
                          /\ GetSession(c, id) => ret'.session = NoId
                          /\ GetOrCreate(c, id) => pc'[c] = "create_evict"
                          /\ id \notin SessionIds(sessions')
                    /\ (i = 0 /\ GetSession(c, id)) =>
                          /\ ret'.session = NoId
                          /\ sessions' = sessions
       /\ \A id \in Ids :
            (id <= next_id /\ id \notin SessionIds(sessions)) =>
                id \notin SessionIds(sessions')
       /\ \A c \in Callers :
            ListSnapshot(c) =>
                {ret'.listing[i].session_id : i \in 1..Len(ret'.listing)}
                    = SessionIds(sessions)]_vars

\* get_session found the session expired, deleted it and returned None.
C10_Witness ==
    /\ ret.op = "get_session"
    /\ ret.session = NoId
    /\ ret.removed = {ret.arg}
    /\ ret.arg \notin SessionIds(sessions)

\* C11 as stated: no summary list_sessions returns describes a session that
\* is TTL-expired when the snapshot is taken, and list_sessions changes no
\* last_used.
C11_NoExpiredSummary ==
    [][\A c \in Callers :
          /\ ListSnapshot(c) =>
                /\ \A i \in 1..Len(ret'.listing) :
                      ~OlderThanTtl(ret'.listing[i], now)
                /\ sessions' = sessions
          /\ ListEvict(c) =>
                \A i \in 1..Len(sessions') :
                    \E j \in 1..Len(sessions) : sessions[j] = sessions'[i]]_vars

\* C11, amended: the eviction step of list_sessions removes exactly the
\* sessions that are TTL-expired when it runs and leaves the others as they
\* are and in order; the snapshot step returns one summary, in order, for
\* every session in the registry when it runs, expired since or not; neither
\* step changes a last_used.
C11_SweepThenSnapshot ==
    [][\A c \in Callers :
          /\ ListEvict(c) =>
                /\ \A i \in 1..Len(sessions') :
                      /\ ~OlderThanTtl(sessions'[i], now)
                      /\ \E j \in 1..Len(sessions) : sessions[j] = sessions'[i]
                /\ \A j \in 1..Len(sessions) :
                      ~OlderThanTtl(sessions[j], now) =>
                          \E i \in 1..Len(sessions') : sessions'[i] = sessions[j]
                /\ \A i, k \in 1..Len(sessions') :
                      i < k => IndexOf(sessions, sessions'[i].session_id)
                                  < IndexOf(sessions, sessions'[k].session_id)
          /\ ListSnapshot(c) =>
                /\ Len(ret'.listing) = Len(sessions)
                /\ \A i \in 1..Len(sessions) :
                      /\ ret'.listing[i].session_id = sessions[i].session_id
                      /\ ret'.listing[i].created_at = sessions[i].created_at
                      /\ ret'.listing[i].last_used = sessions[i].last_used
                /\ sessions' = sessions]_vars

\* list_sessions returned the summary of a session that is TTL-expired by
\* now, after a session generated earlier had left the registry.
C11_Witness ==
    /\ ret.op = "list_sessions"
    /\ \E i \in 1..Len(ret.listing) : OlderThanTtl(ret.listing[i], now)
    /\ \E id \in 1..next_id :
          id \notin {ret.listing[i].session_id : i \in 1..Len(ret.listing)}

\* C12: get_or_create(id) returns the session that id is a key of, creating
\* nothing, exactly when that session is not TTL-expired; for an id that is
\* no key or whose session is expired it goes on to create_session, which
\* returns a session under an id never generated before, with an empty
\* namespace and an empty history (and the expired session is deleted).
C12_ExistingOrFresh ==
    [][\A c \in Callers :
          /\ \A id \in Ids :
                GetOrCreate(c, id) =>
                    LET i == IndexOf(sessions, id)
                        live == i # 0 /\ ~OlderThanTtl(sessions[i], now)
                    IN  /\ live =>
                              /\ ret'.op = "get_or_create"
                              /\ ret'.session = id
                              /\ pc'[c] = "idle"
                              /\ next_id' = next_id
                              /\ SessionIds(sessions') = SessionIds(sessions)
                        /\ ~live =>
                              /\ pc'[c] = "create_evict"
                              /\ ret' = ret
                              /\ id \notin SessionIds(sessions')
          /\ (pc[c] = "create_insert" /\ pc'[c] = "idle") =>
                LET new == sessions'[Len(sessions')]
                IN  /\ ret'.session = new.session_id
                    /\ new.session_id \notin 1..next_id
                    /\ new.session_id \notin SessionIds(sessions)
                    /\ new.namespace = EmptyDict
                    /\ new.history = <<>>
                    /\ new.created_at = now /\ new.last_used = now]_vars

\* One caller's get_or_create returned the existing session it asked for
\* while another caller's get_or_create missed and is about to create.
C12_Witness ==
    /\ ret.op = "get_or_create"
    /\ ret.session = ret.arg
    /\ ret.session \in SessionIds(sessions)
    /\ \E c \in Callers : pc[c] = "create_evict"

\* C24: when the locked block of create_session deletes a session for
\* capacity, no session with the same last_used was created before the
\* deleted one.
C24_TieBrokenByCreation ==
    [][\A c \in Callers :
          (/\ pc[c] = "create_insert"
           /\ pc'[c] = "idle"
           /\ Len(sessions) >= MaxSessions)
          =>
          \A i \in 1..Len(sessions) :
              sessions[i].session_id \notin SessionIds(sessions') =>
                  \A j \in 1..Len(sessions) :
                      sessions[j].last_used = sessions[i].last_used =>
                          sessions[i].created_at <= sessions[j].created_at]_vars

\* create_session deleted a session while a session created later, still in
\* the registry, had the same last_used.
C24_Witness ==
    /\ ret.op = "create_session"
    /\ \E g \in ret.oldest :
          \E i \in 1..Len(sessions) :
              /\ sessions[i].last_used = g.last_used
              /\ sessions[i].created_at > g.created_at

\* C25: get_session of a session that is not TTL-expired returns that
\* session, sets its last_used to the clock reading and changes nothing else
\* of it and no other session; while some other session has an older
\* last_used, a capacity eviction of the registry as the lookup left it does
\* not delete the session looked up.
C25_LookupRefreshes ==
    [][\A c \in Callers, id \in Ids :
          GetSession(c, id) =>
              LET i == IndexOf(sessions, id)
              IN  (i # 0 /\ ~OlderThanTtl(sessions[i], now)) =>
                      /\ ret'.session = id
                      /\ Len(sessions') = Len(sessions)
                      /\ sessions'[i] = [sessions[i] EXCEPT !.last_used = now]
                      /\ \A j \in 1..Len(sessions) :
                            j # i => sessions'[j] = sessions[j]
                      /\ (/\ Len(sessions') >= MaxSessions
                          /\ \E j \in 1..Len(sessions') :
                                sessions'[j].last_used < sessions'[i].last_used)
                         => id \in SessionIds(EvictForCapacity(sessions'))]_vars

\* get_session returned a session created before now, in a full registry
\* that holds a session created later and used less recently.
C25_Witness ==
    /\ ret.op = "get_session"
    /\ ret.session = ret.arg
    /\ Len(sessions) = MaxSessions
    /\ \E i, j \in 1..Len(sessions) :
          /\ sessions[i].session_id = ret.arg
          /\ sessions[i].last_used = now
          /\ sessions[i].created_at < now
          /\ sessions[j].session_id > ret.arg
          /\ sessions[j].last_used < now

-----------------------------------------------------------------------------
(* Properties of the captured output, under SpecTruncate *)

\* The value a run of decimal digits writes; -1 if it is not such a run.
RECURSIVE DigitsValue(_)
DigitsValue(ds) ==
    IF ds = <<>> \/ \E i \in 1..Len(ds) : ds[i] \notin {Digits[d] : d \in 1..10}
    THEN -1
    ELSE LET last == (CHOOSE d \in 1..10 : Digits[d] = ds[Len(ds)]) - 1
         IN  IF Len(ds) = 1
             THEN last
             ELSE 10 * DigitsValue(SubSeq(ds, 1, Len(ds) - 1)) + last

\* out is text when text fits the budget, and otherwise the first budget
\* characters of text, then the whole marker with the length of text in it.
ReturnedAsClaimed(text, out, budget) ==
    IF Len(text) <= budget
    THEN out = text
    ELSE LET h == Len(MarkerHead)
             t == Len(MarkerTail)
             n == Len(out) - budget - h - t
         IN  /\ n >= 1
             /\ SubSeq(out, 1, budget) = SubSeq(text, 1, budget)
             /\ SubSeq(out, budget + 1, budget + h) = MarkerHead
             /\ DigitsValue(SubSeq(out, budget + h + 1, budget + h + n))
                   = Len(text)
             /\ SubSeq(out, budget + h + n + 1, Len(out)) = MarkerTail

\* C17: the stdout and the stderr returned are the captured text when it is
\* at most max_output_bytes long, and otherwise its first max_output_bytes
\* characters followed by the complete marker stating its length; the value
\* returned is the value the script bound, whatever its length.
C17_TruncatedAtBudget ==
    returned.status = "completed" =>
        /\ ReturnedAsClaimed(captured.stdout, returned.stdout,
                              max_output_bytes)
        /\ ReturnedAsClaimed(captured.stderr, returned.stderr,
                              max_output_bytes)
        /\ returned.result = captured.result

\* A stdout of more than nine characters cut at a budget of one or more,
\* with a stderr that fits and a returned value longer than the budget.
C17_Witness ==
    /\ returned.status = "completed"
    /\ max_output_bytes >= 1
    /\ Len(captured.stdout) >= 10
    /\ Len(returned.stdout) > Len(captured.stdout)
    /\ captured.stderr # <<>>
    /\ returned.stderr = captured.stderr
    /\ Len(returned.result) > max_output_bytes

\* C22: the result of a call that timed out carries nothing of what the
\* script wrote to stdout and stderr before the deadline.
C22_TimeoutDiscardsOutput ==
    returned.status = "timeout" =>
        /\ returned.stdout = <<>>
        /\ returned.stderr = <<>>

\* C28: while a caller of repl_run_code holds a session and has not
\* returned from execute_code, that session is in the registry under its id.
C28_SessionStaysWhileRunning ==
    \A c \in Callers :
        (frame[c].tool = "repl_run_code" /\ frame[c].session # NoId) =>
            frame[c].session \in SessionIds(sessions)

\* C29: whenever no repl_run_file call is in progress, sys.argv is what it
\* was before the first of them.
C29_ArgvRestored ==
    (\A c \in Callers : frame[c].tool = "none") => sys_argv = ArgvAtStart

\* C30: in every answer of repl_list_sessions the total is the number of
\* session summaries of that answer.
C30_TotalIsListed ==
    response.status = "ok" => response.total = Len(response.sessions)

\* The names of the session the script of the last call deleted: bound in
\* the namespace exec() was given, unbound in it when the script ended.
DeletedNames == (DOMAIN BuildExecNs(ns_before)) \ (DOMAIN exec_ns)

\* C31: no call removes a binding from the session namespace; a name the
\* script of a completed call deleted is bound in the session to the object
\* it named before the call, is in neither new_vars nor modified_vars, and
\* the next execution sees it with that binding (a use of it raises no
\* NameError).
C31_DeletedStaysBound ==
    /\ DOMAIN ns_before \subseteq DOMAIN namespace
    /\ res.status = "completed" =>
          \A k \in DeletedNames :
              /\ k \in DOMAIN namespace
              /\ namespace[k] = ns_before[k]
              /\ k \notin res.new_vars \cup res.modified_vars
              /\ k \in DOMAIN BuildExecNs(namespace)
              /\ BuildExecNs(namespace)[k] = ns_before[k]
              /\ StepStmt(Read(k), BuildExecNs(namespace), heap).exc = "none"

\* A completed call whose script deleted x, bound by an earlier call: x is
\* still in the session.
C31_Witness ==
    /\ res.status = "completed"
    /\ NameX \in DeletedNames
    /\ NameX \in DOMAIN namespace
    /\ res.new_vars = {}
    /\ res.modified_vars = {}

\* C32: the result of a call that ended in an error carries, truncated, what
\* the script wrote to stdout and to stderr before it failed, whichever
\* exception it failed with.
C32_ErrorKeepsOutput ==
    returned.status = "error" =>
        /\ returned.stdout = truncate(captured.stdout, max_output_bytes)
        /\ returned.stderr = truncate(captured.stderr, max_output_bytes)

\* C20: every access to the registry is made with the registry lock held.
C20_EveryAccessLocked == lock_held

====
